---------------------------- MODULE Spec2Model ----------------------------
(***************************************************************************)
(* A model of app.py, the "Dig Site Directions Generator": the Web         *)
(* Mercator geometry helpers, the left/right side determination, the       *)
(* intersection labeller, the turn-by-turn step formatter and the          *)
(* Streamlit script whose runs read and write st.session_state.            *)
(*                                                                         *)
(* Conventions of the model                                                *)
(*  - Text is a sequence of one-character strings, so that Python's `in`,  *)
(*    str.split and str.strip are modelled character by character.         *)
(*  - Degrees are integers that are multiples of 15.  Projected            *)
(*    coordinates are fixed-point numbers in units of R*pi/12 metres       *)
(*    (R = 6378137.0): x = lon/15 exactly, y = the Mercator ordinate       *)
(*    rounded to that unit.                                                *)
(*  - Python floats that result from a division are exact rationals        *)
(*    <<numerator, denominator>> in lowest terms, denominator > 0.         *)
(*  - Values that may be None or an exception are records: None is        *)
(*    [none |-> TRUE], a raised exception is [raised |-> its name]; a      *)
(*    function that returns a string returns the exception's name.         *)
(***************************************************************************)
EXTENDS Integers, Sequences, FiniteSets, TLC

VARIABLES
    narrative,      \* st.session_state.narrative: None or [lines |-> the list of lines]
    map_html,       \* st.session_state.map_html: None or [html |-> the rendered map]
    narrative_run,  \* history: number of the script run that wrote narrative (0: none)
    map_run,        \* history: number of the script run that wrote map_html (0: none)
    runs,           \* history: number of script runs so far
    run,            \* history: what the latest script run was given and did
    pc,             \* position of a function-level harness: "idle", "call", or the function called
    arg,            \* the arguments a function-level harness draws
    ret             \* the value the function under study returned

vars == <<narrative, map_html, narrative_run, map_run, runs, run, pc, arg, ret>>

appVars == <<narrative, map_html, narrative_run, map_run, runs, run>>

None == [none |-> TRUE]

IsNone(v) == "none" \in DOMAIN v

Raise(e) == [raised |-> e]

Raised(v) == "raised" \in DOMAIN v

Max(a, b) == IF a >= b THEN a ELSE b

Min(a, b) == IF a <= b THEN a ELSE b

(***************************************************************************)
(* Python string primitives on sequences of characters.                    *)
(***************************************************************************)
\* s[i:i+len(tok)] == tok   (i is 1-based)
MatchAt(s, tok, i) ==
    /\ i >= 1
    /\ i + Len(tok) - 1 <= Len(s)
    /\ SubSeq(s, i, i + Len(tok) - 1) = tok

\* s.find(tok) + 1: the 1-based index of the first occurrence, 0 when absent
Find(s, tok) ==
    LET hits == {i \in 1..Len(s) : MatchAt(s, tok, i)}
    IN  IF hits = {} THEN 0 ELSE CHOOSE i \in hits : \A j \in hits : i <= j

\* tok in s
Contains(tok, s) == Find(s, tok) # 0

\* s.split(tok, 1)[1], used only when tok in s
SplitAfter(s, tok) == SubSeq(s, Find(s, tok) + Len(tok), Len(s))

\* s.split(sep, 1)[0]
SplitBefore(s, sep) ==
    IF Contains(sep, s) THEN SubSeq(s, 1, Find(s, sep) - 1) ELSE s

\* s.strip(): the only whitespace character of the model's alphabet is " "
Strip(s) ==
    LET inked == {i \in 1..Len(s) : s[i] # " "}
    IN  IF inked = {} THEN <<>>
        ELSE SubSeq(s, CHOOSE i \in inked : \A j \in inked : i <= j,
                       CHOOSE i \in inked : \A j \in inked : i >= j)

\* "sep".join(lines) is not needed: the narrative is kept as a list of lines

(***************************************************************************)
(* Geometry helpers (Web Mercator), app.py lines 23-76.                    *)
(***************************************************************************)
\* math.log(math.tan(pi/4 + radians(lat)/2)) * R in units of R*pi/12,
\* rounded: 0.2649, 0.5493, 0.8814, 1.3170, 2.0276, 37.3319 times 12/pi.
MercYTable ==
    [lat \in {0, 15, 30, 45, 60, 75, 90} |->
        CASE lat = 0  -> 0
          [] lat = 15 -> 1
          [] lat = 30 -> 2
          [] lat = 45 -> 3
          [] lat = 60 -> 5
          [] lat = 75 -> 8
          [] lat = 90 -> 143]

\* math.log raises ValueError ("math domain error") when the tangent is not
\* positive: at lat = -90 the argument is exactly 0.0, for 90 < lat < 270 and
\* -270 < lat < -90 it is negative.  At lat = 90 the float tangent is 1.6e16.
MercDefined(lat) == -90 < lat /\ lat <= 90

mercator_xy(lon, lat) ==
    IF ~MercDefined(lat) THEN Raise("ValueError")
    ELSE [x |-> lon \div 15,
          y |-> IF lat >= 0 THEN MercYTable[lat] ELSE -MercYTable[-lat]]

\* exact rationals <<n, d>> in lowest terms, d > 0
Abs(n) == IF n < 0 THEN -n ELSE n

RECURSIVE Gcd(_, _)
Gcd(m, n) == IF n = 0 THEN m ELSE Gcd(n, m % n)

Rat(n, d) == LET g == Gcd(Abs(n), d) IN <<n \div g, d \div g>>

RLess(p, q) == p[1] * q[2] < q[1] * p[2]

RSub(p, q) == Rat(p[1] * q[2] - q[1] * p[2], p[2] * q[2])

RMul(p, q) == Rat(p[1] * q[1], p[2] * q[2])

RAdd(p, q) == Rat(p[1] * q[2] + q[1] * p[2], p[2] * q[2])

segment_projection(a_lon, a_lat, b_lon, b_lat, p_lon, p_lat) ==
    LET A == mercator_xy(a_lon, a_lat)
        B == mercator_xy(b_lon, b_lat)
        P == mercator_xy(p_lon, p_lat)
    IN  IF Raised(A) \/ Raised(B) \/ Raised(P) THEN Raise("ValueError")
        ELSE
        LET ax == A.x
            ay == A.y
            bx == B.x
            by == B.y
            px == P.x
            py == P.y
            vx == bx - ax
            vy == by - ay
            seg_len2 == vx * vx + vy * vy
            dot == (px - ax) * vx + (py - ay) * vy
            \* t = max(0.0, min(1.0, dot / seg_len2)) = tn / seg_len2
            tn == Max(0, Min(seg_len2, dot))
        IN  IF seg_len2 = 0
            THEN [t |-> <<0, 1>>, projx |-> <<ax, 1>>, projy |-> <<ay, 1>>,
                  ax |-> ax, ay |-> ay, bx |-> bx, by |-> by]
            ELSE [t |-> Rat(tn, seg_len2),
                  projx |-> Rat(ax * seg_len2 + tn * vx, seg_len2),
                  projy |-> Rat(ay * seg_len2 + tn * vy, seg_len2),
                  ax |-> ax, ay |-> ay, bx |-> bx, by |-> by]

\* float("inf"): the one value with denominator 0
Inf == <<1, 0>>

\* a variant that also replaces the best segment on a tie: d2 <= best_d2
CloserOrTie(d2, best_d2) == best_d2 = Inf \/ ~RLess(best_d2, d2)

\* line 53: if d2 < best_d2
Closer(d2, best_d2) == best_d2 = Inf \/ RLess(d2, best_d2)

\* The squared distance of lines 51-52 from the dig point to a projection.
SegD2(sp, P) ==
    LET dx == RSub(<<P.x, 1>>, sp.projx)
        dy == RSub(<<P.y, 1>>, sp.projy)
    IN  RAdd(RMul(dx, dx), RMul(dy, dy))

\* The loop of lines 47-55 from index i (0-based) on.  route_latlon holds
\* <<lat, lon>> pairs.  The field idx records the index of the segment kept;
\* the code returns only the segment's end points.
RECURSIVE NearestLoop(_, _, _, _, _, _)
NearestLoop(route_latlon, dig_lat, dig_lon, i, best, best_d2) ==
    IF i >= Len(route_latlon) - 1 THEN best
    ELSE
    LET a == route_latlon[i + 1]
        b == route_latlon[i + 2]
        sp == segment_projection(a[2], a[1], b[2], b[1], dig_lon, dig_lat)
    IN  IF Raised(sp) THEN sp
        ELSE
        LET d2 == SegD2(sp, mercator_xy(dig_lon, dig_lat))
        IN  IF Closer(d2, best_d2)
            THEN NearestLoop(route_latlon, dig_lat, dig_lon, i + 1,
                     [a |-> <<a[2], a[1]>>, b |-> <<b[2], b[1]>>,
                      proj |-> <<sp.projx, sp.projy>>, t |-> sp.t, idx |-> i],
                     d2)
            ELSE NearestLoop(route_latlon, dig_lat, dig_lon, i + 1, best, best_d2)

nearest_segment_with_projection(route_latlon, dig_lat, dig_lon) ==
    IF Raised(mercator_xy(dig_lon, dig_lat)) THEN Raise("ValueError")
    ELSE NearestLoop(route_latlon, dig_lat, dig_lon, 0, None, Inf)

\* cross = tx*wy - ty*wx of line 65, an exact rational
Cross(a_ll, b_ll, proj_xy, dig_lon, dig_lat) ==
    LET A == mercator_xy(a_ll[1], a_ll[2])
        B == mercator_xy(b_ll[1], b_ll[2])
        P == mercator_xy(dig_lon, dig_lat)
        tx == B.x - A.x
        ty == B.y - A.y
        wx == RSub(<<P.x, 1>>, proj_xy[1])
        wy == RSub(<<P.y, 1>>, proj_xy[2])
    IN  RSub(RMul(<<tx, 1>>, wy), RMul(<<ty, 1>>, wx))

\* a variant that reports left for a zero cross product: cross >= 0
side_from_local_tangentZeroLeft(a_ll, b_ll, proj_xy, dig_lon, dig_lat) ==
    IF \/ Raised(mercator_xy(a_ll[1], a_ll[2]))
       \/ Raised(mercator_xy(b_ll[1], b_ll[2]))
       \/ Raised(mercator_xy(dig_lon, dig_lat))
    THEN "ValueError"
    ELSE IF Cross(a_ll, b_ll, proj_xy, dig_lon, dig_lat)[1] >= 0
         THEN "left" ELSE "right"

\* lines 58-66: "left" if cross > 0 else "right"
side_from_local_tangent(a_ll, b_ll, proj_xy, dig_lon, dig_lat) ==
    IF \/ Raised(mercator_xy(a_ll[1], a_ll[2]))
       \/ Raised(mercator_xy(b_ll[1], b_ll[2]))
       \/ Raised(mercator_xy(dig_lon, dig_lat))
    THEN "ValueError"
    ELSE IF Cross(a_ll, b_ll, proj_xy, dig_lon, dig_lat)[1] > 0
         THEN "left" ELSE "right"

\* lines 73-76, given the value of line 72's call
SideOfNearest(nearest, dig_lat, dig_lon) ==
    IF Raised(nearest) THEN "ValueError"
    ELSE IF IsNone(nearest) THEN "right"
    ELSE side_from_local_tangent(nearest.a, nearest.b, nearest.proj,
                                 dig_lon, dig_lat)

side_relative_to_route(route_latlon, dig_lat, dig_lon) ==
    IF Len(route_latlon) < 2 THEN "right"
    ELSE SideOfNearest(
             nearest_segment_with_projection(route_latlon, dig_lat, dig_lon),
             dig_lat, dig_lon)

(***************************************************************************)
(* Function-level harness for the geometry: the arguments are drawn in     *)
(* the initial state and one call is made.                                 *)
(***************************************************************************)
MaxPts == 3

RouteLats == {0, 30, 60}

RouteLons == {150, 165, 180}

\* 195 is a longitude outside [-180, 180]; -90 and 105 are latitudes
\* outside (-90, 90)
DigLats == {-90, 0, 30, 60, 105}

DigLons == {150, 165, 180, 195}

RoutePts == RouteLats \X RouteLons

Polylines == UNION {[1..n -> RoutePts] : n \in 0..MaxPts}

AppIdle ==
    /\ narrative = None
    /\ map_html = None
    /\ narrative_run = 0
    /\ map_run = 0
    /\ runs = 0
    /\ run = [kind |-> "start"]

SideInit ==
    /\ AppIdle
    /\ pc = "call"
    /\ arg \in [route : Polylines, dig_lat : DigLats, dig_lon : DigLons]
    /\ ret = None

CallSide ==
    /\ pc = "call"
    /\ pc' = "side"
    /\ ret' = side_relative_to_route(arg.route, arg.dig_lat, arg.dig_lon)
    /\ UNCHANGED <<appVars, arg>>

CallNearest ==
    /\ pc = "call"
    /\ pc' = "nearest"
    /\ ret' = nearest_segment_with_projection(arg.route, arg.dig_lat, arg.dig_lon)
    /\ UNCHANGED <<appVars, arg>>

SideNext == CallSide \/ CallNearest

SpecSide == SideInit /\ [][SideNext]_vars

(***************************************************************************)
(* Properties of the side determination, checked under SpecSide.           *)
(***************************************************************************)
Reverse(s) == [i \in 1..Len(s) |-> s[Len(s) + 1 - i]]

Opposite(s1, s2) ==
    \/ s1 = "left" /\ s2 = "right"
    \/ s1 = "right" /\ s2 = "left"

\* P lies on the straight line through the projections of A and B
\* (A, B, P are <<lat, lon>> pairs inside the projection's domain)
Collinear(A, B, P) ==
    LET a == mercator_xy(A[2], A[1])
        b == mercator_xy(B[2], B[1])
        p == mercator_xy(P[2], P[1])
    IN  (b.x - a.x) * (p.y - a.y) - (b.y - a.y) * (p.x - a.x) = 0

\* The squared distance from the dig point to segment j (0-based) of route
SegmentD2(route, j, dig_lat, dig_lon) ==
    SegD2(segment_projection(route[j + 1][2], route[j + 1][1],
                             route[j + 2][2], route[j + 2][1], dig_lon, dig_lat),
          mercator_xy(dig_lon, dig_lat))

\* C2: side_relative_to_route never raises and always returns left or right,
\* for every polyline and every target; with fewer than 2 points the result
\* is the default right.
C2_SideNeverRaises ==
    pc = "side" =>
        /\ ret \in {"left", "right"}
        /\ (Len(arg.route) < 2 => ret = "right")

\* C3 (as claimed): for A # B, whenever both calls return, the side of P
\* relative to [A, B] is the opposite of its side relative to [B, A].
C3_ReversalFlips ==
    (/\ pc = "side"
     /\ Len(arg.route) = 2
     /\ arg.route[1] # arg.route[2]
     /\ ret # "ValueError")
    => Opposite(ret, side_relative_to_route(Reverse(arg.route),
                                            arg.dig_lat, arg.dig_lon))

\* C3 (amended): for A # B, the two calls raise on the same inputs; when they
\* return, the sides are opposite if P is off the line through A and B, and
\* both are right if P is on that line.
C3_ReversalFlipsOffLine ==
    (/\ pc = "side"
     /\ Len(arg.route) = 2
     /\ arg.route[1] # arg.route[2])
    => LET back == side_relative_to_route(Reverse(arg.route),
                                          arg.dig_lat, arg.dig_lon)
       IN  /\ (ret = "ValueError") <=> (back = "ValueError")
           /\ (ret = "ValueError") <=> ~MercDefined(arg.dig_lat)
           /\ ret # "ValueError" =>
                IF Collinear(arg.route[1], arg.route[2],
                             <<arg.dig_lat, arg.dig_lon>>)
                THEN ret = "right" /\ back = "right"
                ELSE Opposite(ret, back)

\* C3 witness: a two-point polyline with P strictly to its left, so that the
\* reversed polyline has P on its right.
C3_Witness ==
    /\ pc = "side"
    /\ Len(arg.route) = 2
    /\ arg.route[1] # arg.route[2]
    /\ ret = "left"
    /\ side_relative_to_route(Reverse(arg.route), arg.dig_lat, arg.dig_lon) = "right"

\* C4: for a polyline of at least 2 points and a target inside the domain
\* of the projection, nearest_segment_with_projection returns a segment at a
\* squared distance no larger than any other segment's, every segment of
\* lower index is strictly farther, and the end points and projection
\* returned are that segment's.
C4_NearestIsMinimalLowestIndex ==
    (pc = "nearest" /\ Len(arg.route) >= 2 /\ MercDefined(arg.dig_lat)) =>
        /\ ~Raised(ret)
        /\ ~IsNone(ret)
        /\ ret.idx \in 0..(Len(arg.route) - 2)
        /\ ret.a = <<arg.route[ret.idx + 1][2], arg.route[ret.idx + 1][1]>>
        /\ ret.b = <<arg.route[ret.idx + 2][2], arg.route[ret.idx + 2][1]>>
        /\ LET sp == segment_projection(ret.a[1], ret.a[2], ret.b[1], ret.b[2],
                                        arg.dig_lon, arg.dig_lat)
           IN  ret.proj = <<sp.projx, sp.projy>> /\ ret.t = sp.t
        /\ \A j \in 0..(Len(arg.route) - 2) :
              LET dj == SegmentD2(arg.route, j, arg.dig_lat, arg.dig_lon)
                  dr == SegmentD2(arg.route, ret.idx, arg.dig_lat, arg.dig_lon)
              IN  /\ ~RLess(dj, dr)
                  /\ j < ret.idx => RLess(dr, dj)

\* C4 witness: two different segments tie at the minimal distance and the
\* one of lower index is returned.
C4_Witness ==
    /\ pc = "nearest"
    /\ Len(arg.route) >= 3
    /\ ~Raised(ret)
    /\ ~IsNone(ret)
    /\ \E j \in 0..(Len(arg.route) - 2) :
          /\ j > ret.idx
          /\ <<arg.route[j + 1], arg.route[j + 2]>> #
                 <<arg.route[ret.idx + 1], arg.route[ret.idx + 2]>>
          /\ SegmentD2(arg.route, j, arg.dig_lat, arg.dig_lon) =
                 SegmentD2(arg.route, ret.idx, arg.dig_lat, arg.dig_lon)

(***************************************************************************)
(* Decimal rendering of naturals, used by f-strings and by road names.     *)
(***************************************************************************)
DigitChar(d) == <<"0", "1", "2", "3", "4", "5", "6", "7", "8", "9">>[d + 1]

RECURSIVE Digits(_)
Digits(n) == IF n < 10 THEN <<DigitChar(n)>>
             ELSE Digits(n \div 10) \o <<DigitChar(n % 10)>>

(***************************************************************************)
(* Intersection label, app.py lines 91-118.  The Tilequery response is a   *)
(* sequence of features [name, class]; a feature whose properties hold no  *)
(* name (or an empty one) has name <<>>.                                   *)
(***************************************************************************)
MajorClasses == {"motorway", "trunk", "primary", "secondary", "tertiary"}

LabelCap == 6

InSeq(x, s) == \E i \in 1..Len(s) : s[i] = x

\* a variant that stops one road later: len(primary) + len(other) > 6
CapReachedLate(primary, other) == Len(primary) + Len(other) > LabelCap

\* line 111: if len(primary) + len(other) >= 6: break
CapReached(primary, other) == Len(primary) + Len(other) >= LabelCap

\* The loop of lines 99-112 from feature i (1-based) on; the value is
\* names = primary + other of line 113.
RECURSIVE LabelLoop(_, _, _, _)
LabelLoop(features, i, primary, other) ==
    IF i > Len(features) THEN primary \o other
    ELSE
    LET name == features[i].name
        cls == features[i].class
    IN  IF name = <<>> THEN LabelLoop(features, i + 1, primary, other)
        ELSE IF InSeq(name, primary) \/ InSeq(name, other)
        THEN LabelLoop(features, i + 1, primary, other)
        ELSE
        LET primary2 == IF cls \in MajorClasses THEN Append(primary, name)
                        ELSE primary
            other2 == IF cls \in MajorClasses THEN other
                      ELSE Append(other, name)
        IN  IF CapReached(primary2, other2) THEN primary2 \o other2
            ELSE LabelLoop(features, i + 1, primary2, other2)

\* pick_intersection_label_near_point, given the features of the response
pick_intersection_label(features) ==
    LET names == LabelLoop(features, 1, <<>>, <<>>)
    IN  IF Len(names) >= 2 THEN names[1] \o <<" ", "&", " ">> \o names[2]
        ELSE IF Len(names) >= 1 THEN names[1]
        ELSE <<"U", "n", "k", "n", "o", "w", "n", " ",
               "I", "n", "t", "e", "r", "s", "e", "c", "t", "i", "o", "n">>

(***************************************************************************)
(* Function-level harness for the labeller.  Roads are named R1, R2, ...   *)
(* in the order of their first occurrence (the function reads names only   *)
(* for equality); a response lists up to MaxRoads distinct named roads,    *)
(* each of a major or a minor class, and at most one more feature that is  *)
(* unnamed or repeats an earlier road under either class.                  *)
(***************************************************************************)
MaxRoads == 7

RoadName(k) == <<"R">> \o Digits(k)

RoadClasses == {"primary", "residential"}

DistinctRoads(classes) ==
    [i \in 1..Len(classes) |-> [name |-> RoadName(i), class |-> classes[i]]]

InsertAt(s, p, f) == SubSeq(s, 1, p) \o <<f>> \o SubSeq(s, p + 1, Len(s))

ExtraFeatures(p) ==
    {[name |-> <<>>, class |-> "residential"]}
        \cup {[name |-> RoadName(i), class |-> c] : i \in 1..p, c \in RoadClasses}

\* the responses the harness draws: k distinct roads of classes cs, and
\* with extra the feature f put after the first p of them
Response(cs, extra, p, f) ==
    IF extra THEN InsertAt(DistinctRoads(cs), p, f) ELSE DistinctRoads(cs)

LabelInit ==
    /\ AppIdle
    /\ pc = "call"
    /\ \E k \in 0..MaxRoads : \E cs \in [1..k -> RoadClasses] :
          \/ arg = [features |-> Response(cs, FALSE, 0, None)]
          \/ \E p \in 0..k : \E f \in ExtraFeatures(p) :
                arg = [features |-> Response(cs, TRUE, p, f)]
    /\ ret = None

CallLabel ==
    /\ pc = "call"
    /\ pc' = "label"
    /\ ret' = pick_intersection_label(arg.features)
    /\ UNCHANGED <<appVars, arg>>

LabelNext == CallLabel

SpecLabel == LabelInit /\ [][LabelNext]_vars

(***************************************************************************)
(* Properties of the labeller, checked under SpecLabel.                    *)
(***************************************************************************)
\* the names of the named features, in order
RECURSIVE NamesOf(_)
NamesOf(features) ==
    IF features = <<>> THEN <<>>
    ELSE IF Head(features).name = <<>> THEN NamesOf(Tail(features))
    ELSE <<Head(features)>> \o NamesOf(Tail(features))

\* deduplicated by name, first occurrence wins
RECURSIVE Dedup(_, _)
Dedup(fs, seen) ==
    IF fs = <<>> THEN <<>>
    ELSE IF Head(fs).name \in seen THEN Dedup(Tail(fs), seen)
    ELSE <<Head(fs)>> \o Dedup(Tail(fs), seen \cup {Head(fs).name})

IsMajor(f) == f.class \in MajorClasses

IsOther(f) == f.class \notin MajorClasses

\* major then other, each in its own order
MajorFirst(fs) == SelectSeq(fs, IsMajor) \o SelectSeq(fs, IsOther)

FirstN(s, n) == SubSeq(s, 1, Min(n, Len(s)))

LabelOf(fs) ==
    IF Len(fs) >= 2 THEN fs[1].name \o <<" ", "&", " ">> \o fs[2].name
    ELSE IF Len(fs) = 1 THEN fs[1].name
    ELSE <<"U", "n", "k", "n", "o", "w", "n", " ",
           "I", "n", "t", "e", "r", "s", "e", "c", "t", "i", "o", "n">>

\* C5 (as claimed): the label is that of the whole deduplicated list, major
\* roads first; the cap of 6 never changes the two names chosen.
C5_LabelIgnoresCap ==
    pc = "label" =>
        ret = LabelOf(MajorFirst(Dedup(NamesOf(arg.features), {})))

\* C5 (amended): the label is that of the first 6 distinct named roads of
\* the response, major roads first; roads after the sixth distinct name are
\* never read.
C5_LabelOfFirstSix ==
    pc = "label" =>
        ret = LabelOf(MajorFirst(FirstN(Dedup(NamesOf(arg.features), {}),
                                        LabelCap)))

\* C5 witness: a response with more than 6 distinct names whose seventh is
\* a major road that the list without the cap would put in the label: the
\* label names the first two roads instead.
C5_Witness ==
    /\ pc = "label"
    /\ Len(Dedup(NamesOf(arg.features), {})) > LabelCap
    /\ IsMajor(Dedup(NamesOf(arg.features), {})[LabelCap + 1])
    /\ ret = RoadName(1) \o <<" ", "&", " ">> \o RoadName(2)
    /\ ret # LabelOf(MajorFirst(Dedup(NamesOf(arg.features), {})))

(***************************************************************************)
(* Turn-by-turn formatting, app.py lines 123-160.  A step is a record      *)
(* [name, type, instr, distance]: step["name"] (<<>> when missing or       *)
(* empty), maneuver.type, maneuver.instruction, and step["distance"] in    *)
(* centimetres, so that 1609.34 m is the integer CmPerMile.                *)
(***************************************************************************)
CmPerMile == 160934

\* f"{q:.2f}" for a rational q >= 0: round to hundredths, ties to even
Fmt2(q) ==
    LET whole == (100 * q[1]) \div q[2]
        rest == (100 * q[1]) % q[2]
        h == IF 2 * rest > q[2] THEN whole + 1
             ELSE IF 2 * rest = q[2] /\ whole % 2 = 1 THEN whole + 1
             ELSE whole
    IN  Digits(h \div 100) \o <<".", DigitChar((h \div 10) % 10), DigitChar(h % 10)>>

\* dist_mi = step["distance"] / 1609.34 of line 227
Miles(distance) == Rat(distance, CmPerMile)

T_onto == <<"o", "n", "t", "o", " ">>
T_on == <<"o", "n", " ">>
T_sp_onto_sp == <<" ", "o", "n", "t", "o", " ">>
T_sp_on_sp == <<" ", "o", "n", " ">>
T_sp_and == <<" ", "a", "n", "d">>
T_comma == <<",">>
T_Dash == <<"-", " ">>
T_DriveOn == <<"-", " ", "D", "r", "i", "v", "e", " ", "o", "n", " ">>
T_Drive == <<"-", " ", "D", "r", "i", "v", "e">>
T_ContinueOn == <<"-", " ", "C", "o", "n", "t", "i", "n", "u", "e", " ", "o", "n", " ">>
T_Continue == <<"-", " ", "C", "o", "n", "t", "i", "n", "u", "e">>
T_for == <<" ", "f", "o", "r", " ">>
T_miles == <<" ", "m", "i", "l", "e", "s">>
T_semi_continue_for == <<";", " ", "c", "o", "n", "t", "i", "n", "u", "e", " ", "f", "o", "r", " ">>
T_semi_continue_on == <<";", " ", "c", "o", "n", "t", "i", "n", "u", "e", " ", "o", "n", " ">>

\* line 129: for token in ["onto ", "on "]
RoadTokens == <<T_onto, T_on>>

\* lines 132-133: cut the part at " and", then at ","
CutAtSeparators(part) == SplitBefore(SplitBefore(part, T_sp_and), T_comma)

step_road_name(step) ==
    IF step.name # <<>> THEN step.name
    ELSE IF Contains(RoadTokens[1], step.instr)
    THEN CutAtSeparators(Strip(SplitAfter(step.instr, RoadTokens[1])))
    ELSE IF Contains(RoadTokens[2], step.instr)
    THEN CutAtSeparators(Strip(SplitAfter(step.instr, RoadTokens[2])))
    ELSE <<>>

TurnTypes == {"turn", "fork", "merge", "exit", "roundabout", "on ramp", "off ramp"}

\* a variant that tests the tokens of line 129, without the leading space
MentionsRoadLoose(instr) == Contains(T_onto, instr) \/ Contains(T_on, instr)

\* line 151: " onto " not in instr and " on " not in instr
MentionsRoad(instr) == Contains(T_sp_onto_sp, instr) \/ Contains(T_sp_on_sp, instr)

format_step(step, dist_mi) ==
    LET man_type == step.type
        instr == Strip(step.instr)
        road_after == step_road_name(step)
        d == Fmt2(dist_mi)
    IN  IF man_type = "depart"
        THEN IF road_after # <<>>
             THEN T_DriveOn \o road_after \o T_for \o d \o T_miles
             ELSE T_Drive \o T_for \o d \o T_miles
        ELSE IF man_type \in TurnTypes
        THEN IF road_after # <<>> /\ ~MentionsRoad(instr)
             THEN T_Dash \o instr \o T_sp_onto_sp \o road_after
                      \o T_semi_continue_for \o d \o T_miles
             ELSE IF road_after # <<>>
             THEN T_Dash \o instr \o T_semi_continue_on \o road_after
                      \o T_for \o d \o T_miles
             ELSE T_Dash \o instr \o T_for \o d \o T_miles
        ELSE IF road_after # <<>>
             THEN T_ContinueOn \o road_after \o T_for \o d \o T_miles
             ELSE T_Continue \o T_for \o d \o T_miles

(***************************************************************************)
(* Function-level harness for the formatter.  An instruction is up to      *)
(* MaxWords words joined by single spaces, the first of them "Turn".       *)
(***************************************************************************)
MaxWords == 4

W_Turn == <<"T", "u", "r", "n">>
W_on == <<"o", "n">>
W_onto == <<"o", "n", "t", "o">>
W_Avon == <<"A", "v", "o", "n">>
W_ElmComma == <<"E", "l", "m", ",">>
W_and == <<"a", "n", "d">>
N_ElmSt == <<"E", "l", "m", " ", "S", "t">>

Words == {W_Turn, W_on, W_onto, W_Avon, W_ElmComma, W_and}

RECURSIVE JoinWords(_)
JoinWords(ws) ==
    IF ws = <<>> THEN <<>>
    ELSE IF Len(ws) = 1 THEN ws[1]
    ELSE ws[1] \o <<" ">> \o JoinWords(Tail(ws))

StepNames == {<<>>, N_ElmSt}

StepTypes == {"depart", "turn", "off ramp", "roundabout", "continue", "arrive"}

\* 1609.34 m, 804.67 m, 2000 m
StepDistances == {160934, 80467, 200000}

\* an instruction is empty or starts with a verb
StepInit ==
    /\ AppIdle
    /\ pc = "call"
    /\ \E n \in 0..MaxWords : \E ws \in [2..n -> Words] :
          \E nm \in StepNames, ty \in StepTypes, dist \in StepDistances :
             arg = [step |-> [name |-> nm, type |-> ty,
                              instr |-> IF n = 0 THEN <<>>
                                        ELSE JoinWords(<<W_Turn>> \o
                                                 [i \in 1..(n - 1) |-> ws[i + 1]]),
                              distance |-> dist]]
    /\ ret = None

CallRoadName ==
    /\ pc = "call"
    /\ pc' = "road_name"
    /\ ret' = step_road_name(arg.step)
    /\ UNCHANGED <<appVars, arg>>

CallFormat ==
    /\ pc = "call"
    /\ pc' = "format"
    /\ ret' = format_step(arg.step, Miles(arg.step.distance))
    /\ UNCHANGED <<appVars, arg>>

StepNext == CallRoadName \/ CallFormat

SpecStep == StepInit /\ [][StepNext]_vars

(***************************************************************************)
(* Properties of the formatter, checked under SpecStep.                    *)
(***************************************************************************)
\* C6 (as claimed): for a turn-like step the line is the instruction followed
\* by "; continue on {road} for {d} miles" exactly when a road name was
\* resolved and the instruction contains neither "onto " nor " on ", and the
\* instruction followed directly by " for {d} miles" in every other case.
C6_TurnLineTwoCases ==
    (pc = "format" /\ arg.step.type \in TurnTypes) =>
        LET instr == arg.step.instr
            road == step_road_name(arg.step)
            d == Fmt2(Miles(arg.step.distance))
        IN  ret = IF /\ road # <<>>
                     /\ ~Contains(T_onto, instr)
                     /\ ~Contains(T_sp_on_sp, instr)
                  THEN T_Dash \o instr \o T_semi_continue_on \o road
                           \o T_for \o d \o T_miles
                  ELSE T_Dash \o instr \o T_for \o d \o T_miles

\* C6 (amended): for a turn-like step the line is
\*   "- {instr} onto {road}; continue for {d} miles" when a road name was
\*      resolved and the instruction contains neither " onto " nor " on ",
\*   "- {instr}; continue on {road} for {d} miles" when a road name was
\*      resolved and the instruction contains one of them,
\*   "- {instr} for {d} miles" when no road name was resolved.
C6_TurnLineThreeCases ==
    (pc = "format" /\ arg.step.type \in TurnTypes) =>
        LET instr == arg.step.instr
            road == step_road_name(arg.step)
            d == Fmt2(Miles(arg.step.distance))
            mentions == Contains(T_sp_onto_sp, instr) \/ Contains(T_sp_on_sp, instr)
        IN  /\ (road # <<>> /\ ~mentions) =>
                ret = T_Dash \o instr \o T_sp_onto_sp \o road
                          \o T_semi_continue_for \o d \o T_miles
            /\ (road # <<>> /\ mentions) =>
                ret = T_Dash \o instr \o T_semi_continue_on \o road
                          \o T_for \o d \o T_miles
            /\ road = <<>> =>
                ret = T_Dash \o instr \o T_for \o d \o T_miles

\* C6 witness: "Turn onto Avon" of 804.67 m with no explicit name is
\* rendered with the road repeated after the instruction.
C6_Witness ==
    /\ pc = "format"
    /\ arg.step.type = "turn"
    /\ arg.step.name = <<>>
    /\ arg.step.instr = <<"T", "u", "r", "n", " ", "o", "n", "t", "o", " ", "A", "v", "o", "n">>
    /\ arg.step.distance = 80467
    /\ ret = <<"-", " ", "T", "u", "r", "n", " ", "o", "n", "t", "o", " ", "A", "v", "o", "n", ";", " ", "c", "o", "n", "t", "i", "n", "u", "e", " ", "o", "n", " ", "A", "v", "o", "n", " ", "f", "o", "r", " ", "0", ".", "5", "0", " ", "m", "i", "l", "e", "s">>

\* C7: with no explicit name and an instruction containing neither " onto "
\* nor " on ", step_road_name returns the empty string: no name is
\* fabricated from an "on " that ends another word.
C7_NoFabricatedName ==
    (/\ pc = "road_name"
     /\ arg.step.name = <<>>
     /\ ~Contains(T_sp_onto_sp, arg.step.instr)
     /\ ~Contains(T_sp_on_sp, arg.step.instr))
    => ret = <<>>

(***************************************************************************)
(* The Streamlit script, app.py lines 14-18 and 165-255.  One script run   *)
(* is one action: a run started by the form's submit button executes the   *)
(* try block of lines 174-240, a run started by "Clear results" executes   *)
(* lines 253-255.  The services' responses are inputs of the run.          *)
(***************************************************************************)
T_place == <<"p", "l", "a", "c", "e", ".">>
T_region == <<"r", "e", "g", "i", "o", "n", ".">>
T_From == <<"F", "r", "o", "m", " ", "t", "h", "e", " ", "i", "n", "t", "e", "r", "s", "e", "c", "t", "i", "o", "n", " ", "o", "f", " ">>
T_in == <<" ", "i", "n", " ">>
T_commasp == <<",", " ">>
T_travel == <<",", " ", "t", "r", "a", "v", "e", "l", " ", "a", "s", " ", "f", "o", "l", "l", "o", "w", "s", ":">>
T_DigSite == <<"-", " ", "T", "h", "e", " ", "d", "i", "g", " ", "s", "i", "t", "e", " ", "w", "i", "l", "l", " ", "b", "e", " ", "l", "o", "c", "a", "t", "e", "d", " ", "o", "n", " ", "y", "o", "u", "r", " ">>
T_dot == <<".">>
T_left == <<"l", "e", "f", "t">>
T_right == <<"r", "i", "g", "h", "t">>

\* cid.startswith(prefix)
StartsWith(s, prefix) == MatchAt(s, prefix, 1)

\* The loop of lines 83-86 from context entry i on; the value is <<town, state>>
RECURSIVE ContextLoop(_, _, _, _)
ContextLoop(context, i, town, state) ==
    IF i > Len(context) THEN <<town, state>>
    ELSE ContextLoop(context, i + 1,
             IF StartsWith(context[i].id, T_place) THEN context[i].text ELSE town,
             IF StartsWith(context[i].id, T_region) THEN context[i].text ELSE state)

extract_town_state(feature) ==
    LET ts == ContextLoop(feature.context, 1, <<>>, <<>>)
    IN  IF ts[1] = <<>> THEN <<feature.text, ts[2]>> ELSE ts

\* line 221
Preamble(intersection_label, town_name, town_state) ==
    T_From \o intersection_label \o T_in \o town_name \o T_commasp
        \o town_state \o T_travel

\* line 225
SideLine(side) ==
    T_DigSite \o (IF side = "left" THEN T_left ELSE T_right) \o T_dot

\* a variant that never takes the branch of the last step: i == len(steps)
IsLastStepNever(i, steps) == i = Len(steps)

\* line 223: if i == len(steps) - 1   (i is 0-based)
IsLastStep(i, steps) == i = Len(steps) - 1

\* The loop of lines 222-228 from step i (0-based) on.  The value is the
\* narrative, or the exception that side_relative_to_route raised.
RECURSIVE NarrativeLoop(_, _, _, _, _, _), LastStep(_, _, _, _, _, _, _)
NarrativeLoop(steps, i, lines, route_coords, lat, lon) ==
    IF i >= Len(steps) THEN [lines |-> lines]
    ELSE IF IsLastStep(i, steps)
    THEN LastStep(steps, i, lines, route_coords, lat, lon,
                  side_relative_to_route(route_coords, lat, lon))
    ELSE NarrativeLoop(steps, i + 1,
             Append(lines, format_step(steps[i + 1], Miles(steps[i + 1].distance))),
             route_coords, lat, lon)

\* lines 224-225, given the value of line 224's call
LastStep(steps, i, lines, route_coords, lat, lon, side) ==
    IF side = "ValueError" THEN Raise("ValueError")
    ELSE NarrativeLoop(steps, i + 1, Append(lines, SideLine(side)),
                       route_coords, lat, lon)

\* What one run of the submit block does.  env holds the responses of the
\* four requests (town, seed, tile, dir) and `fault`, the call that raises
\* an exception of its own: a request ("town", "seed", "tile", "dir"), the
\* construction of the map of lines 231-234 ("map"), its rendering on line
\* 237 ("render"), or none.  The value tells what the run wrote.
\*   outcome: "ok", "stopped" (st.error and st.stop) or "error" (line 240)
\*   merc: whether mercator_xy was called
Aborted(outcome, merc) ==
    [outcome |-> outcome, merc |-> merc, wrote_narrative |-> FALSE,
     lines |-> <<>>, wrote_map |-> FALSE, html |-> None]

\* m._repr_html_() of the map of lines 231-234
MapHtml(lat, lon, start_location, route_coords) ==
    [html |-> [location |-> <<lat, lon>>,
               start |-> <<start_location[2], start_location[1]>>,
               polyline |-> route_coords]]

\* lines 230-237, given the narrative loop's value
StoreOutputs(built, merc, fault, html) ==
    IF Raised(built) THEN Aborted("error", merc)
    ELSE IF fault = "map" THEN Aborted("error", merc)
    ELSE IF fault = "render"
    THEN [outcome |-> "error", merc |-> merc, wrote_narrative |-> TRUE,
          lines |-> built.lines, wrote_map |-> FALSE, html |-> None]
    ELSE [outcome |-> "ok", merc |-> merc, wrote_narrative |-> TRUE,
          lines |-> built.lines, wrote_map |-> TRUE, html |-> html]

\* lines 216-237, given the town, the start and the label
BuildNarrative(lat, lon, fault, town, start_location, intersection_label, route) ==
    StoreOutputs(
        NarrativeLoop(route.steps, 0,
                      <<Preamble(intersection_label, town[1], town[2])>>,
                      route.coords, lat, lon),
        Len(route.steps) >= 1 /\ Len(route.coords) >= 2,
        fault,
        MapHtml(lat, lon, start_location, route.coords))

SubmitRun(lat, lon, env) ==
    IF env.fault = "town" THEN Aborted("error", FALSE)
    ELSE IF env.town.features = <<>> THEN Aborted("stopped", FALSE)
    ELSE IF env.fault = "seed" THEN Aborted("error", FALSE)
    ELSE IF env.seed.routes = <<>> THEN Aborted("stopped", FALSE)
    \* seed_steps[0] of line 199 raises IndexError on an empty list
    ELSE IF env.seed.routes[1].steps = <<>> THEN Aborted("error", FALSE)
    ELSE IF env.fault = "tile" THEN Aborted("error", FALSE)
    ELSE IF env.fault = "dir" THEN Aborted("error", FALSE)
    ELSE IF env.dir.routes = <<>> THEN Aborted("stopped", FALSE)
    ELSE BuildNarrative(lat, lon, env.fault,
                        extract_town_state(env.town.features[1]),
                        env.seed.routes[1].steps[1].location,
                        pick_intersection_label(env.tile.features),
                        env.dir.routes[1])

(***************************************************************************)
(* The inputs of a run.                                                    *)
(***************************************************************************)
MaxRuns == 2

\* 195 is a longitude outside [-180, 180], -90 a latitude outside (-90, 90)
FormLats == {-90, 0, 60}

FormLons == {150, 165, 195}

TownLiberty ==
    [context |-> <<[id |-> <<"r", "e", "g", "i", "o", "n", ".", "1">>, text |-> <<"M", "i", "s", "s", "o", "u", "r", "i">>],
                   [id |-> <<"c", "o", "u", "n", "t", "r", "y", ".", "1">>, text |-> <<"U", "n", "i", "t", "e", "d", " ", "S", "t", "a", "t", "e", "s">>]>>,
     text |-> <<"L", "i", "b", "e", "r", "t", "y">>,
     center |-> <<165, 0>>]

TownResponses == {[features |-> <<>>], [features |-> <<TownLiberty>>]}

SeedResponses ==
    {[routes |-> <<>>],
     [routes |-> <<[steps |-> <<>>]>>],
     [routes |-> <<[steps |-> <<[location |-> <<165, 0>>]>>]>>]}

TileResponses ==
    {[features |-> <<>>],
     [features |-> <<[name |-> <<"M", "a", "i", "n", " ", "S", "t">>, class |-> "primary"],
                     [name |-> <<"M", "a", "i", "n", " ", "S", "t">>, class |-> "secondary"],
                     [name |-> <<"O", "a", "k", " ", "A", "v", "e">>, class |-> "residential"]>>]}

StepDepart ==
    [name |-> <<>>, type |-> "depart", instr |-> <<"H", "e", "a", "d", " ", "n", "o", "r", "t", "h">>, distance |-> 160934]

StepDepartMain ==
    [name |-> <<"M", "a", "i", "n", " ", "S", "t">>, type |-> "depart", instr |-> <<"H", "e", "a", "d", " ", "n", "o", "r", "t", "h", " ", "o", "n", " ", "M", "a", "i", "n", " ", "S", "t">>,
     distance |-> 200000]

StepTurnElm ==
    [name |-> <<>>, type |-> "turn", instr |-> <<"T", "u", "r", "n", " ", "r", "i", "g", "h", "t", " ", "o", "n", "t", "o", " ", "E", "l", "m", " ", "S", "t">>,
     distance |-> 80467]

StepArrive ==
    [name |-> <<>>, type |-> "arrive", instr |-> <<"Y", "o", "u", " ", "h", "a", "v", "e", " ", "a", "r", "r", "i", "v", "e", "d">>, distance |-> 0]

\* no step at all and no geometry
RouteNone == [steps |-> <<>>, coords |-> <<>>]

\* the start is the destination: one step, one point
RouteArrive == [steps |-> <<StepArrive>>, coords |-> <<<<0, 165>>>>]

\* north along Main St
RouteStraight ==
    [steps |-> <<StepDepartMain, StepArrive>>,
     coords |-> <<<<0, 165>>, <<30, 165>>>>]

\* north, then right onto Elm St heading east
RouteElm ==
    [steps |-> <<StepDepart, StepTurnElm, StepArrive>>,
     coords |-> <<<<0, 165>>, <<30, 165>>, <<30, 180>>>>]

DirResponses ==
    {[routes |-> <<>>]}
        \cup {[routes |-> <<r>>] : r \in {RouteNone, RouteArrive, RouteStraight, RouteElm}}

Faults == {"none", "town", "seed", "tile", "dir", "map", "render"}

\* A request that is never made has no response: None.
Envs ==
    {[town |-> None, seed |-> None, tile |-> None, dir |-> None, fault |-> "town"]}
    \cup {[town |-> [features |-> <<>>], seed |-> None, tile |-> None,
           dir |-> None, fault |-> "none"]}
    \cup {[town |-> [features |-> <<TownLiberty>>], seed |-> None, tile |-> None,
           dir |-> None, fault |-> "seed"]}
    \cup {[town |-> [features |-> <<TownLiberty>>], seed |-> s, tile |-> None,
           dir |-> None, fault |-> "none"] :
             s \in {r \in SeedResponses : r.routes = <<>> \/ r.routes[1].steps = <<>>}}
    \cup {[town |-> [features |-> <<TownLiberty>>], seed |-> s, tile |-> None,
           dir |-> None, fault |-> "tile"] :
             s \in {r \in SeedResponses : r.routes # <<>> /\ r.routes[1].steps # <<>>}}
    \cup {[town |-> [features |-> <<TownLiberty>>], seed |-> s, tile |-> t,
           dir |-> None, fault |-> "dir"] :
             s \in {r \in SeedResponses : r.routes # <<>> /\ r.routes[1].steps # <<>>},
             t \in TileResponses}
    \cup {[town |-> [features |-> <<TownLiberty>>], seed |-> s, tile |-> t,
           dir |-> d, fault |-> f] :
             s \in {r \in SeedResponses : r.routes # <<>> /\ r.routes[1].steps # <<>>},
             t \in TileResponses, d \in DirResponses,
             f \in {"none", "map", "render"}}

Init ==
    /\ AppIdle
    /\ pc = "idle"
    /\ arg = None
    /\ ret = None

\* the writes of one submit run whose effect is r
Store(lat, lon, env, r) ==
    /\ narrative' = IF r.wrote_narrative THEN [lines |-> r.lines] ELSE narrative
    /\ map_html' = IF r.wrote_map THEN r.html ELSE map_html
    /\ narrative_run' = IF r.wrote_narrative THEN runs + 1 ELSE narrative_run
    /\ map_run' = IF r.wrote_map THEN runs + 1 ELSE map_run
    /\ run' = [kind |-> "submit", lat |-> lat, lon |-> lon,
               outcome |-> r.outcome, merc |-> r.merc,
               env |-> IF r.wrote_narrative THEN env ELSE None]

\* "Get directions": lines 173-240, then the display of lines 245-250
Submit ==
    /\ runs < MaxRuns
    /\ \E lat \in FormLats, lon \in FormLons, env \in Envs :
          Store(lat, lon, env, SubmitRun(lat, lon, env))
    /\ runs' = runs + 1
    /\ UNCHANGED <<pc, arg, ret>>

\* "Clear results": lines 253-255, after the display of lines 245-250
Clear ==
    /\ runs < MaxRuns
    /\ narrative' = None
    /\ map_html' = None
    /\ narrative_run' = 0
    /\ map_run' = 0
    /\ run' = [kind |-> "clear"]
    /\ runs' = runs + 1
    /\ UNCHANGED <<pc, arg, ret>>

Next == Submit \/ Clear

Spec == Init /\ [][Next]_vars

(***************************************************************************)
(* Properties of the script, checked under Spec.                           *)
(***************************************************************************)
\* the latest run was a submission that wrote the narrative
WroteNarrative == runs > 0 /\ run.kind = "submit" /\ narrative_run = runs

\* the route of the latest submission that wrote the narrative
RunRoute == run.env.dir.routes[1]

\* the first line of the latest submission that wrote the narrative
RunPreamble ==
    Preamble(pick_intersection_label(run.env.tile.features),
             extract_town_state(run.env.town.features[1])[1],
             extract_town_state(run.env.town.features[1])[2])

\* C1: for a route of n >= 1 steps the narrative written on submit is the
\* preamble, then format_step(step_i, distance_i / 1609.34) for the steps
\* 1..n-1 in order, then the dig-site line with the side of the route the
\* dig point is on; the last step's distance and instruction are not used.
C1_NarrativeShape ==
    (WroteNarrative /\ Len(RunRoute.steps) >= 1) =>
        LET steps == RunRoute.steps
            n == Len(steps)
        IN  narrative.lines =
                <<RunPreamble>>
                \o [i \in 1..(n - 1) |->
                       format_step(steps[i], Miles(steps[i].distance))]
                \o <<SideLine(side_relative_to_route(RunRoute.coords,
                                                     run.lat, run.lon))>>

\* C1 witness: the two-step route along Main St with the dig point to the
\* west of it.
C1_Witness ==
    /\ WroteNarrative
    /\ RunRoute = RouteStraight
    /\ run.env.tile.features # <<>>
    /\ narrative.lines =
         <<<<"F", "r", "o", "m", " ", "t", "h", "e", " ", "i", "n", "t", "e",
           "r", "s", "e", "c", "t", "i", "o", "n", " ", "o", "f", " ", "M",
           "a", "i", "n", " ", "S", "t", " ", "&", " ", "O", "a", "k", " ",
           "A", "v", "e", " ", "i", "n", " ", "L", "i", "b", "e", "r", "t",
           "y", ",", " ", "M", "i", "s", "s", "o", "u", "r", "i", ",", " ",
           "t", "r", "a", "v", "e", "l", " ", "a", "s", " ", "f", "o", "l",
           "l", "o", "w", "s", ":">>,
           <<"-", " ", "D", "r", "i", "v", "e", " ", "o", "n", " ", "M", "a",
             "i", "n", " ", "S", "t", " ", "f", "o", "r", " ", "1", ".", "2",
             "4", " ", "m", "i", "l", "e", "s">>,
           <<"-", " ", "T", "h", "e", " ", "d", "i", "g", " ", "s", "i", "t",
             "e", " ", "w", "i", "l", "l", " ", "b", "e", " ", "l", "o", "c",
             "a", "t", "e", "d", " ", "o", "n", " ", "y", "o", "u", "r", " ",
             "l", "e", "f", "t", ".">>>>

ValidCoordinate(lat, lon) == -90 < lat /\ lat < 90 /\ -180 <= lon /\ lon <= 180

\* C8: a submitted coordinate with latitude outside (-90, 90) or longitude
\* outside [-180, 180] is rejected: the run ends without success, without a
\* call of mercator_xy and without writing a narrative.
C8_InvalidCoordinateRejected ==
    (runs > 0 /\ run.kind = "submit" /\ ~ValidCoordinate(run.lat, run.lon)) =>
        /\ run.outcome # "ok"
        /\ ~run.merc
        /\ narrative_run # runs

\* the dig point is to the left of the direction of travel of the last
\* segment of the polyline (a positive cross product in the projected plane)
LeftOfFinalSegment(coords, lat, lon) ==
    /\ Len(coords) >= 2
    /\ MercDefined(lat)
    /\ LET a == mercator_xy(coords[Len(coords) - 1][2], coords[Len(coords) - 1][1])
           b == mercator_xy(coords[Len(coords)][2], coords[Len(coords)][1])
           p == mercator_xy(lon, lat)
       IN  (b.x - a.x) * (p.y - a.y) - (b.y - a.y) * (p.x - a.x) > 0

\* the latest run wrote the narrative of the 3-step route (depart 1609.34 m
\* north, "Turn right onto Elm St" 804.67 m east, arrive) for a dig point
\* left of the final segment
ElmRunLeft ==
    /\ WroteNarrative
    /\ RunRoute = RouteElm
    /\ LeftOfFinalSegment(RouteElm.coords, run.lat, run.lon)

\* C9 (as claimed): that narrative has exactly 3 lines and the last one says
\* the dig site is on the left.
C9_ThreeLinesLeft ==
    ElmRunLeft =>
        /\ Len(narrative.lines) = 3
        /\ narrative.lines[Len(narrative.lines)] = SideLine("left")

\* C9 (amended): that narrative has exactly 4 lines: the preamble, the two
\* step lines and the dig-site line, which says left unless the dig point is
\* straight ahead of the first segment (on its line, beyond the turn), where
\* the tie at the corner goes to the first segment and the line says right.
C9_FourLinesLeftOffAxis ==
    ElmRunLeft =>
        /\ Len(narrative.lines) = 4
        /\ narrative.lines[1] = RunPreamble
        /\ narrative.lines[2] = <<"-", " ", "D", "r", "i", "v", "e", " ",
          "f", "o", "r", " ", "1", ".", "0", "0", " ", "m", "i", "l", "e",
          "s">>
        /\ narrative.lines[3] =
             <<"-", " ", "T", "u", "r", "n", " ", "r", "i", "g", "h", "t",
               " ", "o", "n", "t", "o", " ", "E", "l", "m", " ", "S", "t",
               ";", " ", "c", "o", "n", "t", "i", "n", "u", "e", " ", "o",
               "n", " ", "E", "l", "m", " ", "S", "t", " ", "f", "o", "r",
               " ", "0", ".", "5", "0", " ", "m", "i", "l", "e", "s">>
        /\ narrative.lines[4] =
             SideLine(IF Collinear(RouteElm.coords[1], RouteElm.coords[2],
                                   <<run.lat, run.lon>>)
                      THEN "right" ELSE "left")

\* C9 witness: the dig point north-west of the turn; the last of the 4 lines
\* says left.
C9_Witness ==
    /\ ElmRunLeft
    /\ run.lat = 60
    /\ run.lon = 150
    /\ Len(narrative.lines) = 4
    /\ narrative.lines[4] = <<"-", " ", "T", "h", "e", " ", "d", "i", "g",
      " ", "s", "i", "t", "e", " ", "w", "i", "l", "l", " ", "b", "e", " ",
      "l", "o", "c", "a", "t", "e", "d", " ", "o", "n", " ", "y", "o", "u",
      "r", " ", "l", "e", "f", "t", ".">>

\* C10: the persisted narrative and map_html belong together: both are None
\* or both were written by the same submission.
C10_SessionPairBelongsTogether ==
    /\ IsNone(narrative) <=> IsNone(map_html)
    /\ narrative_run = map_run

=============================================================================
